---- MODULE Spec2Model ----
(***************************************************************************)
(* A model of mplcanvas: one Figure with its plot area (Axes), the mouse   *)
(* event mixin that routes canvas events to the plot area's callbacks, and *)
(* the NavigationToolbar (home / pan / zoom).                              *)
(*                                                                         *)
(* Numbers are exact rationals <<num, den>>; the claims about arithmetic   *)
(* are claims about exact arithmetic.  None is the empty tuple, and an     *)
(* axes is referred to by its 1-based index in figure.axes (0 is None).    *)
(* Figure.add_subplot supports only the 1x1 grid; the model covers the     *)
(* figure's first plot area and, under SpecTarget, the plot areas further  *)
(* calls lay over it.  Time is in milliseconds; the reading of the         *)
(* clock a press handler makes is an input of the press.  Callbacks are    *)
(* named by strings: the toolbar's handlers by their names, and any other  *)
(* name is a callback of the user, whose calls are recorded in             *)
(* figure.called for the length of one operation.                          *)
(***************************************************************************)
EXTENDS Integers, Sequences, FiniteSets, TLC

VARIABLES
    figure,     \* the Figure: axes, toolbar, and the canvas calls of the last operation
    gesture,    \* history: the press not yet released, made under an active tool
    flags,      \* history: tool changes since the last press; registration
    track       \* history: the current and the previous pure pan gesture

vars == <<figure, gesture, flags, track>>

None == <<>>

-----------------------------------------------------------------------------
(* Exact rational arithmetic.                                              *)

Abs(n) == IF n < 0 THEN -n ELSE n

RECURSIVE GCD(_, _)
GCD(a, b) == IF b = 0 THEN a ELSE GCD(b, a % b)

Rat(n, d) ==
    LET s == IF d < 0 THEN -1 ELSE 1
        g == GCD(Abs(n), Abs(d))
    IN  <<(s * n) \div g, (s * d) \div g>>

R(n) == <<n, 1>>
RAdd(a, b) == Rat(a[1] * b[2] + b[1] * a[2], a[2] * b[2])
RSub(a, b) == Rat(a[1] * b[2] - b[1] * a[2], a[2] * b[2])
RMul(a, b) == Rat(a[1] * b[1], a[2] * b[2])
RDiv(a, b) == Rat(a[1] * b[2], a[2] * b[1])
RNeg(a) == <<-a[1], a[2]>>
RAbs(a) == <<Abs(a[1]), a[2]>>
RLt(a, b) == a[1] * b[2] < b[1] * a[2]
RLe(a, b) == a[1] * b[2] <= b[1] * a[2]
RMin(a, b) == IF RLt(b, a) THEN b ELSE a
RMax(a, b) == IF RLt(a, b) THEN b ELSE a

\* np.min / np.max of a non-empty series
RECURSIVE SeqMin(_)
SeqMin(s) == IF Len(s) = 1 THEN s[1] ELSE RMin(s[1], SeqMin(Tail(s)))
RECURSIVE SeqMax(_)
SeqMax(s) == IF Len(s) = 1 THEN s[1] ELSE RMax(s[1], SeqMax(Tail(s)))

\* np.arange(n)
arange(n) == [i \in 1..n |-> R(i - 1)]

-----------------------------------------------------------------------------
(* Program constants and the inputs the model draws from.                  *)

MarginLeft == 80
MarginRight == 20
MarginTop == 20
MarginBottom == 60

\* zoom threshold min_size = 0.01
MinSize == <<1, 100>>

\* MouseEventMixin._double_click_threshold = 0.3 seconds
_double_click_threshold == 300

\* the pixel threshold of the double-click test
ClickPixels == 5

\* Bounds of the model
MaxLines == 2        \* plot calls per plot area
MaxGestures == 1     \* presses delivered while a tool is active
MaxPanGestures == 2  \* the same, when pan gestures are tracked
MaxSetLim == 2       \* set_xlim and set_ylim calls
MaxConnect == 2      \* callbacks the user registers
MaxAxes == 2         \* plot areas, where add_subplot is called again

\* The figure's size in pixels, Figure(figsize=(1.08, 0.84), dpi=100):
\* a plot area of 8 x 4 pixels at (80, 20)
FigSize == <<108, 84>>

\* canvas points of pointer events: the centre of the plot area, its
\* bottom-right corner, and a point outside the plot area
Points == {<<84, 22>>, <<88, 24>>, <<0, 0>>}

\* readings of the clock at a press, in ms: 200, 300 and 600 ms after the
\* first, so that consecutive readings are 0, 100, 200, 300, 400 or 600 apart
Times == {1000, 1200, 1300, 1600}

\* the reading used while the toolbar is in play
NavTimes == {1000}

\* canvas points of the presses whose double-click flag is observed: the
\* top-left corner of the plot area, points 5 pixels, (4, 4) pixels and
\* 8 pixels away from it, and a point one pixel right of the plot area
ClickPoints == {<<80, 20>>, <<85, 20>>, <<84, 24>>, <<88, 24>>, <<89, 24>>}

\* the user's callbacks, and the event types they are connected to
Callbacks == {"cb1", "cb2"}
EventTypes == {"button_press_event", "button_release_event",
               "motion_notify_event", "pick_event"}

\* the picker keyword of plot: absent, or True
Pickers == {None, <<TRUE>>}

\* the helpers that register a callback without returning an id
Helpers == {"add_mouse_callback", "add_click_callback", "add_pick_callback"}

\* canvas points of pointer events while callbacks are observed: the centre
\* of the plot area and a point outside it
EventPoints == {<<84, 22>>, <<0, 0>>}

\* positional arguments of plot that are not (y) or (x, y): none, and
\* x, y and a format string
BadPlotArgs == { <<>>, << <<R(3), R(7)>>, <<R(-5), R(5)>>, "r-" >> }

\* arguments of plot(y): the series y alone
PlotArgs == {<<R(0), R(10)>>, <<R(-5), R(5)>>}

\* arguments of plot(x, y): two points, a single point, and no point
PlotXYArgs == { << <<R(3), R(7)>>, <<R(-5), R(5)>> >>,
                << <<R(3)>>, <<R(3)>> >>,
                << <<>>, <<>> >> }

\* arguments of set_xlim and set_ylim: one bound, the other, both
AllLimArgs == {<<R(2), None>>, <<None, <<1, 100>> >>, <<R(2), R(4)>>}

\* the arguments used while the toolbar is in play
LimArgs == {<<None, <<1, 100>> >>}

-----------------------------------------------------------------------------
(* Figure and Axes.                                                        *)

\* Figure.__init__ (toolbar=True): no axes, no toolbar yet
FigureInit ==
    [ width  |-> FigSize[1],
      height |-> FigSize[2],
      axes |-> <<>>,
      toolbar |-> None,
      _toolbar_enabled |-> TRUE,
      canvas |-> <<>>,
      rect_painted |-> FALSE,
      called |-> <<>>,
      raised |-> None ]

\* Axes.__init__ with MouseEventMixin.__init__
AxesInit(rect) ==
    [ x |-> rect[1], y |-> rect[2], width |-> rect[3], height |-> rect[4],
      _xlim |-> <<R(0), R(1)>>,
      _ylim |-> <<R(0), R(1)>>,
      _autoscale_x |-> TRUE,
      _autoscale_y |-> TRUE,
      _shadow_ax_xlim |-> <<R(0), R(1)>>,
      _shadow_ax_ylim |-> <<R(0), R(1)>>,
      lines |-> <<>>,
      _mouse_press_callbacks |-> <<>>,
      _mouse_release_callbacks |-> <<>>,
      _mouse_motion_callbacks |-> <<>>,
      _pick_callbacks |-> <<>>,
      _mouse_pressed |-> FALSE,
      _last_click_time |-> 0,
      _last_click_pos |-> <<0, 0>>,
      _current_mouse_pos |-> None ]

get_xlim(ax) == ax._xlim
get_ylim(ax) == ax._ylim

\* Figure.draw: one full repaint of the figure, which leaves the canvas
\* without the preview rectangle (rect_painted: is it among the pixels?)
draw(fig) == [fig EXCEPT !.canvas = Append(@, "draw"), !.rect_painted = FALSE]

\* self._shadow_ax.set_xlim(lim), set_ylim(lim): the limits the shadow
\* matplotlib axes holds afterwards.  matplotlib widens a range of zero
\* length instead of storing it, which the third component marks.
shadow_set_lim(lim) ==
    IF lim[1] = lim[2] THEN <<lim[1], lim[2], "expanded">> ELSE lim

\* a set_xlim that leaves the x axis autoscaling
set_xlim_autoscaling(ax, left, right) ==
    LET lim == << IF left # None THEN left ELSE ax._xlim[1],
                  IF right # None THEN right ELSE ax._xlim[2] >>
    IN  [ax EXCEPT !._xlim = lim, !._shadow_ax_xlim = shadow_set_lim(lim)]

\* Axes.set_xlim(left, right)
set_xlim(ax, left, right) ==
    LET lim == << IF left # None THEN left ELSE ax._xlim[1],
                  IF right # None THEN right ELSE ax._xlim[2] >>
    IN  [ax EXCEPT !._xlim = lim,
                   !._autoscale_x = FALSE,
                   !._shadow_ax_xlim = shadow_set_lim(lim)]

\* Axes.set_ylim(bottom, top)
set_ylim(ax, bottom, top) ==
    LET lim == << IF bottom # None THEN bottom ELSE ax._ylim[1],
                  IF top # None THEN top ELSE ax._ylim[2] >>
    IN  [ax EXCEPT !._ylim = lim,
                   !._autoscale_y = FALSE,
                   !._shadow_ax_ylim = shadow_set_lim(lim)]

\* Axes._update_datalim(x, y).  The result is [ax, ok]: np.min of an empty
\* array raises ValueError, after the assignments made before it.
\* (No collection can exist: scatter raises NameError before creating one.)
_update_datalim(ax, x, y) ==
    IF Len(ax.lines) = 0
    THEN IF Len(x) = 0 THEN [ax |-> ax, ok |-> FALSE]
         ELSE IF Len(y) = 0
              THEN [ax |-> [ax EXCEPT !._xlim = <<SeqMin(x), SeqMax(x)>>], ok |-> FALSE]
              ELSE [ax |-> [ax EXCEPT !._xlim = <<SeqMin(x), SeqMax(x)>>,
                                      !._ylim = <<SeqMin(y), SeqMax(y)>>],
                    ok |-> TRUE]
    ELSE LET okx == ~ax._autoscale_x \/ Len(x) > 0
             ax1 == IF ax._autoscale_x /\ Len(x) > 0
                    THEN [ax EXCEPT !._xlim = <<RMin(@[1], SeqMin(x)),
                                                RMax(@[2], SeqMax(x))>>]
                    ELSE ax
             oky == ~ax._autoscale_y \/ Len(y) > 0
             ax2 == IF okx /\ ax._autoscale_y /\ Len(y) > 0
                    THEN [ax1 EXCEPT !._ylim = <<RMin(@[1], SeqMin(y)),
                                                 RMax(@[2], SeqMax(y))>>]
                    ELSE ax1
         IN  [ax |-> ax2, ok |-> okx /\ oky]

\* Line2D.__init__: the artist (only its picker matters to the plot area)
Line2D(x, y, picker) == [picker |-> picker]

\* an operation that ends by raising an exception
raise(fig, exception) == [fig EXCEPT !.raised = <<exception>>]

\* a plot that keeps the x limits _update_datalim computed
KeepDatalimX(ax, x) == ax

\* Axes.plot's autoscaling of x after _update_datalim returned
PlotAutoscaleX(ax, x) ==
    IF ax._autoscale_x THEN [ax EXCEPT !._xlim = <<SeqMin(x), SeqMax(x)>>] ELSE ax

\* Axes.plot's autoscaling of y
PlotAutoscaleY(ax, y) ==
    IF ax._autoscale_y THEN [ax EXCEPT !._ylim = <<SeqMin(y), SeqMax(y)>>] ELSE ax

\* Line2D.draw of a line with data x, y completes: it returns at once for an
\* empty x, and otherwise np.column_stack raises ValueError when the
\* transformed x and y differ in length
Line2D_draw(x, y) == Len(x) = 0 \/ Len(x) = Len(y)

\* the figure.draw() that ends Axes.plot, which draws the new line of data
\* x, y among the others.  The result is [fig, ok].
plot_draw(fig, x, y) ==
    IF Line2D_draw(x, y)
    THEN [fig |-> draw(fig), ok |-> TRUE]
    ELSE [fig |-> raise(draw(fig), "ValueError"), ok |-> FALSE]

\* Axes.plot once x and y are parsed, on axes a, with the picker keyword.
\* The result is [fig, ok]; ok = FALSE is a ValueError, of np.min on an
\* empty series or of the drawing of series of different lengths, raised
\* after the line was added.
plot_picker(fig, a, x, y, picker) ==
    LET ax0 == fig.axes[a]
        ax1 == [ax0 EXCEPT !.lines = Append(@, Line2D(x, y, picker))]
    IN  IF ax1._autoscale_x \/ ax1._autoscale_y
        THEN LET u == _update_datalim(ax1, x, y)
             IN  IF ~u.ok
                 THEN [fig |-> raise([fig EXCEPT !.axes[a] = u.ax], "ValueError"),
                       ok |-> FALSE]
                 ELSE plot_draw([fig EXCEPT !.axes[a] =
                                    PlotAutoscaleY(PlotAutoscaleX(u.ax, x), y)], x, y)
        ELSE plot_draw([fig EXCEPT !.axes[a] = ax1], x, y)

\* Axes.plot(x, y) on axes a
plot(fig, a, x, y) == plot_picker(fig, a, x, y, None)

\* a plot that ignores the positional arguments after the second
plot_any_args(fig, a, args) ==
    IF Len(args) = 0 THEN [fig |-> raise(fig, "ValueError"), ok |-> FALSE]
    ELSE IF Len(args) = 1 THEN plot(fig, a, arange(Len(args[1])), args[1])
    ELSE plot(fig, a, args[1], args[2])

\* Axes.plot(*args) on axes a: the parsing of the positional arguments
plot_args(fig, a, args) ==
    IF Len(args) = 1 THEN plot(fig, a, arange(Len(args[1])), args[1])
    ELSE IF Len(args) = 2 THEN plot(fig, a, args[1], args[2])
    ELSE [fig |-> raise(fig, "ValueError"), ok |-> FALSE]

\* numpy's float arithmetic where a division by zero can have happened:
\* x / 0 is nan for x = 0 and +-inf otherwise (a warning, no exception),
\* written <<0, 0>>, <<1, 0>> and <<-1, 0>>; b is finite in NpMul, a is
\* finite in NpAdd and NpSub
NaN == <<0, 0>>
IsFinite(v) == v[2] # 0
NpDiv(a, b) ==
    IF b[1] # 0 THEN RDiv(a, b)
    ELSE IF a[1] = 0 THEN NaN ELSE IF a[1] > 0 THEN <<1, 0>> ELSE <<-1, 0>>
NpMul(a, b) ==
    IF IsFinite(a) THEN RMul(a, b)
    ELSE IF a = NaN \/ b[1] = 0 THEN NaN
    ELSE IF b[1] > 0 THEN a ELSE <<-a[1], 0>>
NpAdd(a, b) == IF IsFinite(b) THEN RAdd(a, b) ELSE b
NpSub(a, b) == IF IsFinite(b) THEN RSub(a, b) ELSE <<-b[1], 0>>

\* a transform that does not flip the y axis
transform_unflipped(ax, x, y) ==
    LET xlim == get_xlim(ax)
        ylim == get_ylim(ax)
        x_norm == NpDiv(RSub(x, xlim[1]), RSub(xlim[2], xlim[1]))
        y_norm == NpDiv(RSub(y, ylim[1]), RSub(ylim[2], ylim[1]))
    IN  << NpAdd(R(ax.x), NpMul(x_norm, R(ax.width))),
           NpAdd(R(ax.y), NpMul(y_norm, R(ax.height))) >>

\* DataTransform.transform(x, y), for one point of the arrays x and y
transform(ax, x, y) ==
    LET xlim == get_xlim(ax)
        ylim == get_ylim(ax)
        x_norm == NpDiv(RSub(x, xlim[1]), RSub(xlim[2], xlim[1]))
        y_norm == NpDiv(RSub(y, ylim[1]), RSub(ylim[2], ylim[1]))
    IN  << NpAdd(R(ax.x), NpMul(x_norm, R(ax.width))),
           NpAdd(R(ax.y), NpMul(NpSub(R(1), y_norm), R(ax.height))) >>

\* DataTransform.inverse_transform(canvas_x, canvas_y)
inverse_transform(ax, canvas_x, canvas_y) ==
    LET x_norm == RDiv(RSub(canvas_x, R(ax.x)), R(ax.width))
        y_norm == RSub(R(1), RDiv(RSub(canvas_y, R(ax.y)), R(ax.height)))
        xlim == get_xlim(ax)
        ylim == get_ylim(ax)
    IN  << RAdd(xlim[1], RMul(x_norm, RSub(xlim[2], xlim[1]))),
           RAdd(ylim[1], RMul(y_norm, RSub(ylim[2], ylim[1]))) >>

\* a hit test that leaves out the right and the bottom edge
_point_in_axes_open(ax, canvas_x, canvas_y) ==
    /\ ax.x <= canvas_x /\ canvas_x < ax.x + ax.width
    /\ ax.y <= canvas_y /\ canvas_y < ax.y + ax.height

\* MouseEventMixin._point_in_axes
_point_in_axes(ax, canvas_x, canvas_y) ==
    /\ ax.x <= canvas_x /\ canvas_x <= ax.x + ax.width
    /\ ax.y <= canvas_y /\ canvas_y <= ax.y + ax.height

-----------------------------------------------------------------------------
(* NavigationToolbar.  tb(fig) is figure.toolbar; its handlers take and    *)
(* return the whole figure, since they change the axes through it.         *)

tb(fig) == fig.toolbar[1]
with_tb(fig, t) == [fig EXCEPT !.toolbar = <<t>>]

\* NavigationToolbar.__init__ up to the event connections; the attributes
\* _pan_axes_bounds, _zoom_rect_start_canvas and _pan_start do not exist
\* until first assigned (None here: every read of them is guarded by an
\* attribute set together with them).
ToolbarInit ==
    [ _active_tool |-> "none",
      _zoom_rect_start |-> None,
      _zoom_rect_start_canvas |-> None,
      _zoom_rect_current |-> None,
      _zoom_rect_visible |-> FALSE,
      _pan_start_canvas |-> None,
      _pan_start_data |-> None,
      _pan_start_limits |-> None,
      _pan_axes_bounds |-> None,
      _pan_start |-> None,
      _active_axes |-> 0,
      _tools_lock |-> FALSE,
      _home_views |-> <<>>,
      pan_button |-> FALSE,
      zoom_button |-> FALSE ]

\* NavigationToolbar._store_home_view: _home_views[id(axes)] = (xlim, ylim)
_store_home_view(fig, a) ==
    LET view == <<get_xlim(fig.axes[a]), get_ylim(fig.axes[a])>>
        hv == tb(fig)._home_views
    IN  with_tb(fig, [tb(fig) EXCEPT !._home_views =
            [i \in 1..(IF a > Len(hv) THEN a ELSE Len(hv)) |->
                IF i = a THEN view ELSE IF i <= Len(hv) THEN hv[i] ELSE None]])

\* NavigationToolbar.add_axes
add_axes(fig, a) ==
    LET f1 == _store_home_view(fig, a)
    IN  [f1 EXCEPT !.axes[a]._mouse_motion_callbacks = Append(@, "_on_mouse_move"),
                   !.axes[a]._mouse_press_callbacks = Append(@, "_on_mouse_press"),
                   !.axes[a]._mouse_release_callbacks = Append(@, "_on_mouse_release")]

\* NavigationToolbar._setup_event_connections: add_axes for every axes of the figure
RECURSIVE _setup_event_connections(_, _)
_setup_event_connections(fig, a) ==
    IF a > Len(fig.axes) THEN fig
    ELSE _setup_event_connections(add_axes(fig, a), a + 1)

\* Figure._create_toolbar: NavigationToolbar(self)
_create_toolbar(fig) ==
    _setup_event_connections([fig EXCEPT !.toolbar = <<ToolbarInit>>], 1)

\* Figure.add_subplot(1, 1, 1)
add_subplot(fig) ==
    LET rect == << MarginLeft, MarginTop,
                   fig.width - MarginLeft - MarginRight,
                   fig.height - MarginTop - MarginBottom >>
        a  == Len(fig.axes) + 1
        f1 == [fig EXCEPT !.axes = Append(@, AxesInit(rect))]
        f2 == IF f1.toolbar # None THEN add_axes(f1, a) ELSE f1
    IN  IF f2._toolbar_enabled /\ f2.toolbar = None
        THEN add_axes(_create_toolbar(f2), a)
        ELSE f2

\* NavigationToolbar._clear_zoom_rectangle
_clear_zoom_rectangle(fig) ==
    IF tb(fig)._zoom_rect_visible
    THEN draw(with_tb(fig, [tb(fig) EXCEPT !._zoom_rect_visible = FALSE]))
    ELSE fig

\* The two toggle buttons observe their own value: assigning a different
\* value calls the observer, synchronously, with change["new"].
RECURSIVE _on_pan_clicked(_, _), _on_zoom_clicked(_, _)

set_pan_button(fig, v) ==
    IF tb(fig).pan_button = v THEN fig
    ELSE _on_pan_clicked(with_tb(fig, [tb(fig) EXCEPT !.pan_button = v]), v)

set_zoom_button(fig, v) ==
    IF tb(fig).zoom_button = v THEN fig
    ELSE _on_zoom_clicked(with_tb(fig, [tb(fig) EXCEPT !.zoom_button = v]), v)

\* a Pan observer that leaves the Zoom button as it is
pan_clicked_keeps_zoom(fig, new) ==
    IF tb(fig)._tools_lock THEN fig
    ELSE with_tb(fig, [tb(fig) EXCEPT !._active_tool =
            IF new THEN "pan" ELSE IF @ = "pan" THEN "none" ELSE @])

\* NavigationToolbar._on_pan_clicked(change), new = change["new"]
_on_pan_clicked(fig, new) ==
    IF tb(fig)._tools_lock THEN fig
    ELSE LET f1 == with_tb(fig, [tb(fig) EXCEPT !._tools_lock = TRUE])
             f2 == IF new
                   THEN set_zoom_button(
                            with_tb(f1, [tb(f1) EXCEPT !._active_tool = "pan"]), FALSE)
                   ELSE IF tb(f1)._active_tool = "pan"
                        THEN with_tb(f1, [tb(f1) EXCEPT !._active_tool = "none"])
                        ELSE f1
         IN  with_tb(f2, [tb(f2) EXCEPT !._tools_lock = FALSE])

\* NavigationToolbar._on_zoom_clicked(change), new = change["new"]
_on_zoom_clicked(fig, new) ==
    IF tb(fig)._tools_lock THEN fig
    ELSE LET f1 == with_tb(fig, [tb(fig) EXCEPT !._tools_lock = TRUE])
             f2 == IF new
                   THEN _clear_zoom_rectangle(set_pan_button(
                            with_tb(f1, [tb(f1) EXCEPT !._active_tool = "zoom"]), FALSE))
                   ELSE IF tb(f1)._active_tool = "zoom"
                        THEN with_tb(f1, [tb(f1) EXCEPT !._active_tool = "none"])
                        ELSE f1
         IN  with_tb(f2, [tb(f2) EXCEPT !._tools_lock = FALSE])

\* NavigationToolbar._on_home_clicked: the loop over figure.axes, from axes a on
RECURSIVE HomeAxes(_, _)
HomeAxes(fig, a) ==
    IF a > Len(fig.axes) THEN fig
    ELSE LET hv == tb(fig)._home_views
         IN  IF a <= Len(hv) /\ hv[a] # None
             THEN HomeAxes([fig EXCEPT !.axes[a] =
                      set_ylim(set_xlim(@, hv[a][1][1], hv[a][1][2]),
                               hv[a][2][1], hv[a][2][2])], a + 1)
             ELSE HomeAxes(fig, a + 1)

\* a Home that resets the limits and keeps the tool
home_keeps_tool(fig) == HomeAxes(fig, 1)

\* NavigationToolbar._on_home_clicked
_on_home_clicked(fig) ==
    LET f1 == HomeAxes(fig, 1)
    IN  with_tb(f1, [tb(f1) EXCEPT !._active_tool = "none"])

\* NavigationToolbar._determine_active_axes: first axes containing the point, from a on
RECURSIVE AxesContaining(_, _, _)
AxesContaining(fig, event, a) ==
    IF a > Len(fig.axes) THEN 0
    ELSE IF _point_in_axes(fig.axes[a], event.canvas_x, event.canvas_y) THEN a
    ELSE AxesContaining(fig, event, a + 1)

\* NavigationToolbar._determine_active_axes
_determine_active_axes(fig, event) ==
    IF event.inaxes # 0 THEN event.inaxes ELSE AxesContaining(fig, event, 1)

\* a press that also scrolls the pressed point to the left edge
start_pan_scrolling(fig, event) ==
    LET a == tb(fig)._active_axes
        ax == fig.axes[a]
        limits == <<get_xlim(ax), get_ylim(ax)>>
        f1 == [fig EXCEPT !.axes[a] = set_xlim(@, event.data_x, None)]
    IN  with_tb(f1, [tb(f1) EXCEPT
            !._pan_start_canvas = <<event.canvas_x, event.canvas_y>>,
            !._pan_start_data = <<event.data_x, event.data_y>>,
            !._pan_start_limits = limits,
            !._pan_axes_bounds = <<ax.x, ax.y, ax.width, ax.height,
                                   limits[1], limits[2]>>])

\* NavigationToolbar._start_pan
_start_pan(fig, event) ==
    LET ax == fig.axes[tb(fig)._active_axes]
        limits == <<get_xlim(ax), get_ylim(ax)>>
    IN  with_tb(fig, [tb(fig) EXCEPT
            !._pan_start_canvas = <<event.canvas_x, event.canvas_y>>,
            !._pan_start_data = <<event.data_x, event.data_y>>,
            !._pan_start_limits = limits,
            !._pan_axes_bounds = <<ax.x, ax.y, ax.width, ax.height,
                                   limits[1], limits[2]>>])

\* a pan that moves the lower x bound only
PanLimitsLowerOnly(t, event) ==
    LET dx_canvas == event.canvas_x - t._pan_start_canvas[1]
        dy_canvas == event.canvas_y - t._pan_start_canvas[2]
        bounds == t._pan_axes_bounds
        dx_data == RMul(RDiv(R(dx_canvas), R(bounds[3])),
                        RSub(bounds[5][2], bounds[5][1]))
        dy_data == RNeg(RMul(RDiv(R(dy_canvas), R(bounds[4])),
                             RSub(bounds[6][2], bounds[6][1])))
        start_xlim == t._pan_start_limits[1]
        start_ylim == t._pan_start_limits[2]
    IN  << <<RSub(start_xlim[1], dx_data), start_xlim[2]>>,
           <<RSub(start_ylim[1], dy_data), RSub(start_ylim[2], dy_data)>> >>

\* a pan that moves the upper bounds twice as far as the lower ones
PanLimitsStretching(t, event) ==
    LET dx_canvas == event.canvas_x - t._pan_start_canvas[1]
        dy_canvas == event.canvas_y - t._pan_start_canvas[2]
        bounds == t._pan_axes_bounds
        dx_data == RMul(RDiv(R(dx_canvas), R(bounds[3])),
                        RSub(bounds[5][2], bounds[5][1]))
        dy_data == RNeg(RMul(RDiv(R(dy_canvas), R(bounds[4])),
                             RSub(bounds[6][2], bounds[6][1])))
        start_xlim == t._pan_start_limits[1]
        start_ylim == t._pan_start_limits[2]
    IN  << <<RSub(start_xlim[1], dx_data), RSub(start_xlim[2], RMul(R(2), dx_data))>>,
           <<RSub(start_ylim[1], dy_data), RSub(start_ylim[2], RMul(R(2), dy_data))>> >>

\* NavigationToolbar._do_pan: the new limits, from the anchor and the event
PanLimits(t, event) ==
    LET dx_canvas == event.canvas_x - t._pan_start_canvas[1]
        dy_canvas == event.canvas_y - t._pan_start_canvas[2]
        bounds == t._pan_axes_bounds
        dx_data == RMul(RDiv(R(dx_canvas), R(bounds[3])),
                        RSub(bounds[5][2], bounds[5][1]))
        dy_data == RNeg(RMul(RDiv(R(dy_canvas), R(bounds[4])),
                             RSub(bounds[6][2], bounds[6][1])))
        start_xlim == t._pan_start_limits[1]
        start_ylim == t._pan_start_limits[2]
    IN  << <<RSub(start_xlim[1], dx_data), RSub(start_xlim[2], dx_data)>>,
           <<RSub(start_ylim[1], dy_data), RSub(start_ylim[2], dy_data)>> >>

\* a pan that takes each move event as the anchor of the next
_do_pan_reanchoring(fig, event) ==
    LET t == tb(fig)
    IN  IF t._pan_start_canvas = None \/ t._pan_start_limits = None \/ t._active_axes = 0
        THEN fig
        ELSE LET new == PanLimits(t, event)
                 moved == [fig EXCEPT !.axes[t._active_axes] =
                             set_ylim(set_xlim(@, new[1][1], new[1][2]),
                                      new[2][1], new[2][2])]
             IN  draw(with_tb(moved, [t EXCEPT !._pan_start_canvas =
                                         <<event.canvas_x, event.canvas_y>>]))

\* NavigationToolbar._do_pan
_do_pan(fig, event) ==
    LET t == tb(fig)
    IN  IF t._pan_start_canvas = None \/ t._pan_start_limits = None \/ t._active_axes = 0
        THEN fig
        ELSE LET new == PanLimits(t, event)
             IN  draw([fig EXCEPT !.axes[t._active_axes] =
                          set_ylim(set_xlim(@, new[1][1], new[1][2]),
                                   new[2][1], new[2][2])])

\* an end of pan that takes the panned view as the home view
_end_pan_storing_home(fig) ==
    LET f1 == _store_home_view(fig, tb(fig)._active_axes)
    IN  with_tb(f1, [tb(f1) EXCEPT !._pan_start = None,
                                   !._pan_start_limits = None,
                                   !._active_axes = 0])

\* NavigationToolbar._end_pan (it clears _pan_start, not _pan_start_canvas)
_end_pan(fig) ==
    with_tb(fig, [tb(fig) EXCEPT !._pan_start = None,
                                 !._pan_start_limits = None,
                                 !._active_axes = 0])

\* NavigationToolbar._start_zoom
_start_zoom(fig, event) ==
    with_tb(fig, [tb(fig) EXCEPT
        !._zoom_rect_start = <<event.data_x, event.data_y>>,
        !._zoom_rect_start_canvas = <<event.canvas_x, event.canvas_y>>,
        !._zoom_rect_visible = TRUE])

\* a rectangle drawing that uses up the anchor of the gesture
_draw_zoom_rectangle_once(fig) ==
    IF ~tb(fig)._zoom_rect_visible THEN fig
    ELSE with_tb([fig EXCEPT !.canvas = Append(@, "rect"), !.rect_painted = TRUE],
                 [tb(fig) EXCEPT !._zoom_rect_start_canvas = None])

\* NavigationToolbar._draw_zoom_rectangle
_draw_zoom_rectangle(fig) ==
    IF ~tb(fig)._zoom_rect_visible THEN fig
    ELSE [fig EXCEPT !.canvas = Append(@, "rect"), !.rect_painted = TRUE]

\* a preview that paints the rectangle over what the canvas shows
_update_zoom_preview_no_repaint(fig, event) ==
    IF tb(fig)._zoom_rect_start # None /\ tb(fig)._active_axes # 0
    THEN _draw_zoom_rectangle(fig)
    ELSE fig

\* NavigationToolbar._update_zoom_preview: repaint, then the rectangle
_update_zoom_preview(fig, event) ==
    IF tb(fig)._zoom_rect_start # None /\ tb(fig)._active_axes # 0
    THEN _draw_zoom_rectangle([fig EXCEPT !.canvas = Append(@, "repaint"),
                                          !.rect_painted = FALSE])
    ELSE fig

\* a zoom without a minimum size
NeverTooSmall(x0, y0, x1, y1) == FALSE

\* NavigationToolbar._end_zoom: is the dragged region too small?
TooSmall(x0, y0, x1, y1) ==
    \/ RLt(RAbs(RSub(x1, x0)), MinSize)
    \/ RLt(RAbs(RSub(y1, y0)), MinSize)

\* NavigationToolbar._end_zoom
_end_zoom(fig, event) ==
    IF tb(fig)._zoom_rect_start = None \/ tb(fig)._active_axes = 0 THEN fig
    ELSE LET f1 == _clear_zoom_rectangle(fig)
             t  == tb(f1)
             x0 == t._zoom_rect_start[1]
             y0 == t._zoom_rect_start[2]
             x1 == event.data_x
             y1 == event.data_y
             cleaned == [t EXCEPT !._zoom_rect_start = None,
                                  !._zoom_rect_start_canvas = None,
                                  !._active_axes = 0]
         IN  IF TooSmall(x0, y0, x1, y1)
             THEN with_tb(f1, cleaned)
             ELSE draw(with_tb(
                      [f1 EXCEPT !.axes[t._active_axes] =
                          set_ylim(set_xlim(@, RMin(x0, x1), RMax(x0, x1)),
                                   RMin(y0, y1), RMax(y0, y1))],
                      cleaned))

\* a move handler that continues the gesture whatever the event's axes
_on_mouse_move_any_axes(fig, event) ==
    LET t == tb(fig)
    IN  IF t._active_tool = "pan" /\ t._pan_start_canvas # None
        THEN _do_pan(fig, event)
        ELSE IF t._active_tool = "zoom" /\ t._zoom_rect_start # None
        THEN _update_zoom_preview(fig, event)
        ELSE fig

\* NavigationToolbar._on_mouse_move
_on_mouse_move(fig, event) ==
    LET t == tb(fig)
    IN  IF t._active_tool = "pan" /\ t._pan_start_canvas # None
        THEN IF t._active_axes = event.inaxes THEN _do_pan(fig, event) ELSE fig
        ELSE IF t._active_tool = "zoom" /\ t._zoom_rect_start # None
        THEN IF t._active_axes = event.inaxes
             THEN _update_zoom_preview(fig, event) ELSE fig
        ELSE fig

\* NavigationToolbar._on_mouse_press
_on_mouse_press(fig, event) ==
    LET t  == tb(fig)
        f1 == with_tb(fig, [t EXCEPT !._active_axes = _determine_active_axes(fig, event)])
    IN  IF t._active_tool = "pan"
        THEN IF tb(f1)._active_axes # 0 THEN _start_pan(f1, event) ELSE f1
        ELSE IF t._active_tool = "zoom"
        THEN IF tb(f1)._active_axes # 0 THEN _start_zoom(f1, event) ELSE f1
        ELSE fig

\* NavigationToolbar._on_mouse_release
_on_mouse_release(fig, event) ==
    LET t == tb(fig)
    IN  IF t._active_tool = "pan" /\ t._pan_start_canvas # None
        THEN IF t._active_axes = _determine_active_axes(fig, event)
             THEN _end_pan(fig) ELSE fig
        ELSE IF t._active_tool = "zoom" /\ t._zoom_rect_start # None
        THEN IF t._active_axes = _determine_active_axes(fig, event)
             THEN _end_zoom(fig, event) ELSE fig
        ELSE fig

-----------------------------------------------------------------------------
(* MouseEventMixin: canvas events to MouseEvents to the callbacks.         *)

\* the MouseEvent dataclass (button and key are not read by any handler)
MouseEvent(name, x, y, data, dblclick, a) ==
    [ name |-> name, canvas_x |-> x, canvas_y |-> y,
      data_x |-> data[1], data_y |-> data[2], dblclick |-> dblclick,
      inaxes |-> a ]

\* callback(event) for one registered callback: a handler of the toolbar,
\* or a callback of the user, which is recorded with the event it received
Call(fig, callback, event) ==
    CASE callback = "_on_mouse_move" -> _on_mouse_move(fig, event)
      [] callback = "_on_mouse_press" -> _on_mouse_press(fig, event)
      [] callback = "_on_mouse_release" -> _on_mouse_release(fig, event)
      [] OTHER -> [fig EXCEPT !.called = Append(@, <<callback, event>>)]

\* a loop that calls the callbacks last to first
RECURSIVE CallAllReversed(_, _, _)
CallAllReversed(fig, callbacks, event) ==
    IF callbacks = <<>> THEN fig
    ELSE Call(CallAllReversed(fig, Tail(callbacks), event), Head(callbacks), event)

\* for callback in callbacks: callback(event)
RECURSIVE CallAll(_, _, _)
CallAll(fig, callbacks, event) ==
    IF callbacks = <<>> THEN fig
    ELSE CallAll(Call(fig, Head(callbacks), event), Tail(callbacks), event)

\* the PickEvent dataclass
PickEvent(artist, mouseevent) ==
    [ name |-> "pick_event", artist |-> artist, mouseevent |-> mouseevent ]

\* for artist in picked_artists: for callback in self._pick_callbacks
RECURSIVE FirePickEvents(_, _, _, _)
FirePickEvents(fig, a, picked_artists, event) ==
    IF picked_artists = <<>> THEN fig
    ELSE FirePickEvents(CallAll(fig, fig.axes[a]._pick_callbacks,
                                PickEvent(Head(picked_artists), event)),
                        a, Tail(picked_artists), event)

\* MouseEventMixin._check_picking of axes a.  Line2D defines no
\* contains_point: the first line that has a picker ends the handler with
\* an AttributeError, and without one no artist is picked.
_check_picking(fig, a, event) ==
    LET lines == fig.axes[a].lines
    IN  IF \E i \in 1..Len(lines) : lines[i].picker # None
        THEN raise(fig, "AttributeError")
        ELSE FirePickEvents(fig, a, <<>>, event)

\* the callback list of an event type
Channel(event_type) ==
    CASE event_type = "button_press_event" -> "_mouse_press_callbacks"
      [] event_type = "button_release_event" -> "_mouse_release_callbacks"
      [] event_type = "motion_notify_event" -> "_mouse_motion_callbacks"
      [] event_type = "pick_event" -> "_pick_callbacks"

\* MouseEventMixin.mpl_connect: the result is [ax, cid], the connection id
\* being the position of the callback in its list, counted from 0; an
\* unknown event type raises ValueError (cid = None)
mpl_connect(ax, event_type, callback) ==
    IF event_type \notin EventTypes THEN [ax |-> ax, cid |-> None]
    ELSE LET list == Channel(event_type)
             ax1 == [ax EXCEPT ![list] = Append(@, callback)]
         IN  [ax |-> ax1, cid |-> Len(ax1[list]) - 1]

\* MouseEventMixin.mpl_disconnect: pass
mpl_disconnect(ax, cid) == ax

\* MouseEventMixin.add_mouse_callback, add_click_callback, add_pick_callback
add_mouse_callback(ax, callback) ==
    [ax EXCEPT !._mouse_motion_callbacks = Append(@, callback)]
add_click_callback(ax, callback) ==
    [ax EXCEPT !._mouse_press_callbacks = Append(@, callback)]
add_pick_callback(ax, callback) ==
    [ax EXCEPT !._pick_callbacks = Append(@, callback)]

\* one of the three helpers, by its name
add_callback(ax, helper, callback) ==
    CASE helper = "add_mouse_callback" -> add_mouse_callback(ax, callback)
      [] helper = "add_click_callback" -> add_click_callback(ax, callback)
      [] helper = "add_pick_callback" -> add_pick_callback(ax, callback)

\* a double-click test that ignores the time between the presses
DblClickAnyTime(ax, current_time, x, y) ==
    /\ Abs(x - ax._last_click_pos[1]) < ClickPixels
    /\ Abs(y - ax._last_click_pos[2]) < ClickPixels

\* the double-click test of _on_canvas_mouse_down
DblClick(ax, current_time, x, y) ==
    /\ current_time - ax._last_click_time < _double_click_threshold
    /\ Abs(x - ax._last_click_pos[1]) < ClickPixels
    /\ Abs(y - ax._last_click_pos[2]) < ClickPixels

\* MouseEventMixin._on_canvas_mouse_down of axes a; current_time is the
\* reading of time.time()
_on_canvas_mouse_down(fig, a, x, y, current_time) ==
    LET ax == fig.axes[a]
        event == MouseEvent("button_press_event", x, y, inverse_transform(ax, R(x), R(y)),
                            DblClick(ax, current_time, x, y), a)
        clicked == [fig EXCEPT !.axes[a]._last_click_time = current_time,
                               !.axes[a]._last_click_pos = <<x, y>>,
                               !.axes[a]._mouse_pressed = TRUE]
    IN  IF ~_point_in_axes(ax, x, y) THEN fig
        ELSE _check_picking(CallAll(clicked, ax._mouse_press_callbacks, event),
                            a, event)

\* MouseEventMixin._on_canvas_mouse_up of axes a
_on_canvas_mouse_up(fig, a, x, y) ==
    LET ax == fig.axes[a]
        event == MouseEvent("button_release_event", x, y, inverse_transform(ax, R(x), R(y)),
                            FALSE, a)
    IN  IF ~_point_in_axes(ax, x, y) THEN fig
        ELSE CallAll([fig EXCEPT !.axes[a]._mouse_pressed = FALSE],
                     ax._mouse_release_callbacks, event)

\* MouseEventMixin._on_canvas_mouse_move of axes a
_on_canvas_mouse_move(fig, a, x, y) ==
    LET ax == fig.axes[a]
        event == MouseEvent("motion_notify_event", x, y, inverse_transform(ax, R(x), R(y)),
                            FALSE, a)
        moved == [fig EXCEPT !.axes[a]._current_mouse_pos = <<x, y>>]
    IN  IF ~_point_in_axes(ax, x, y) THEN moved
        ELSE CallAll(moved, ax._mouse_motion_callbacks, event)

-----------------------------------------------------------------------------
(* The state machine: one action per call a user or the host can make.     *)

\* canvas calls are recorded per operation
Reset(fig) == [fig EXCEPT !.canvas = <<>>, !.called = <<>>, !.raised = None]

\* the limits of every plot area
Limits(fig) == [a \in 1..Len(fig.axes) |-> <<fig.axes[a]._xlim, fig.axes[a]._ylim>>]

\* the active tool, "none" before the toolbar exists
ActiveTool(fig) == IF fig.toolbar = None THEN "none" ELSE tb(fig)._active_tool

\* the plot area under a canvas point (0: none)
Hit(fig, p) == AxesContaining(fig, [canvas_x |-> p[1], canvas_y |-> p[2]], 1)

Off(p, q) == <<p[1] - q[1], p[2] - q[2]>>

NoGesture == [ tool |-> "none", area |-> 0, p0 |-> None, data0 |-> None ]

\* a tracked pan gesture: where it was pressed, the limits then, the point
\* of its last move (the press point before any), whether no event came
\* between its press and its release, and the point of its release
NoPan == [ on |-> FALSE, area |-> 0, p0 |-> None, limits0 |-> None, end |-> None,
           quiet |-> FALSE, released |-> FALSE, up |-> None ]

\* a call that is no pointer event ends the tracking of pure gestures
Interrupt(t) == IF t.enabled THEN [t EXCEPT !.cur = NoPan, !.prev = NoPan] ELSE t

InitHistory ==
    /\ gesture = NoGesture
    /\ flags = [ tool_changed |-> FALSE, zoom_over_pan |-> FALSE, presses |-> 0,
                 setlims |-> 0, registered |-> <<>>, last_press |-> None,
                 subs |-> <<>> ]

Init ==
    /\ figure = FigureInit
    /\ InitHistory
    /\ track = [ enabled |-> FALSE, cur |-> NoPan, prev |-> NoPan ]

\* fig.add_subplot(1, 1, 1), the first plot area
AddSubplot ==
    /\ figure.axes = <<>>
    /\ figure' = add_subplot(Reset(figure))
    /\ flags' = [flags EXCEPT !.registered = Limits(figure')]
    /\ track' = Interrupt(track)
    /\ UNCHANGED gesture

\* a further fig.add_subplot(1, 1, 1): one more plot area, over the same
\* rectangle of the canvas as the first
AddSubplotAgain ==
    /\ figure.axes # <<>>
    /\ Len(figure.axes) < MaxAxes
    /\ figure' = add_subplot(Reset(figure))
    /\ flags' = [flags EXCEPT !.registered =
                    Append(@, Limits(figure')[Len(figure'.axes)])]
    /\ track' = Interrupt(track)
    /\ UNCHANGED gesture

\* ax.plot(y)
Plot(a, y) ==
    /\ Len(figure.axes[a].lines) < MaxLines
    /\ figure' = plot(Reset(figure), a, arange(Len(y)), y).fig
    /\ track' = Interrupt(track)
    /\ UNCHANGED <<gesture, flags>>

\* ax.plot(x, y)
PlotXY(a, x, y) ==
    /\ Len(figure.axes[a].lines) < MaxLines
    /\ figure' = plot(Reset(figure), a, x, y).fig
    /\ track' = Interrupt(track)
    /\ UNCHANGED <<gesture, flags>>

\* ax.set_xlim(left, right)
SetXlim(a, left, right) ==
    /\ flags.setlims < MaxSetLim
    /\ figure' = [Reset(figure) EXCEPT !.axes[a] = set_xlim(@, left, right)]
    /\ flags' = [flags EXCEPT !.setlims = @ + 1]
    /\ track' = Interrupt(track)
    /\ UNCHANGED gesture

\* ax.set_ylim(bottom, top)
SetYlim(a, bottom, top) ==
    /\ flags.setlims < MaxSetLim
    /\ figure' = [Reset(figure) EXCEPT !.axes[a] = set_ylim(@, bottom, top)]
    /\ flags' = [flags EXCEPT !.setlims = @ + 1]
    /\ track' = Interrupt(track)
    /\ UNCHANGED gesture

\* ax.plot(y, picker=picker)
PlotPicker(a, y, picker) ==
    /\ Len(figure.axes[a].lines) < MaxLines
    /\ figure' = plot_picker(Reset(figure), a, arange(Len(y)), y, picker).fig
    /\ track' = Interrupt(track)
    /\ UNCHANGED <<gesture, flags>>

\* ax.plot(*args) with no or with three positional arguments
PlotBadArgs(a, args) ==
    /\ figure' = plot_args(Reset(figure), a, args).fig
    /\ track' = Interrupt(track)
    /\ UNCHANGED <<gesture, flags>>

\* cid = ax.mpl_connect(event_type, callback); the subscription is
\* remembered with its id <<cid>> (None for a helper, which returns no id)
Connect(a, event_type, callback) ==
    LET c == mpl_connect(figure.axes[a], event_type, callback)
    IN  /\ Len(flags.subs) < MaxConnect
        /\ figure' = [Reset(figure) EXCEPT !.axes[a] = c.ax]
        /\ flags' = [flags EXCEPT !.subs = Append(@,
                        [ event_type |-> event_type, callback |-> callback,
                          cid |-> <<c.cid>>, off |-> FALSE ])]
        /\ track' = Interrupt(track)
        /\ UNCHANGED gesture

\* ax.add_mouse_callback(callback), add_click_callback or add_pick_callback
AddCallback(a, helper, callback) ==
    /\ Len(flags.subs) < MaxConnect
    /\ figure' = [Reset(figure) EXCEPT !.axes[a] = add_callback(@, helper, callback)]
    /\ flags' = [flags EXCEPT !.subs = Append(@,
                    [ event_type |-> CASE helper = "add_mouse_callback" -> "motion_notify_event"
                                       [] helper = "add_click_callback" -> "button_press_event"
                                       [] helper = "add_pick_callback" -> "pick_event",
                      callback |-> callback, cid |-> None, off |-> FALSE ])]
    /\ track' = Interrupt(track)
    /\ UNCHANGED gesture

\* ax.mpl_disconnect(cid) with the id mpl_connect returned for the i-th
\* subscription
Disconnect(a, i) ==
    /\ i \in 1..Len(flags.subs)
    /\ flags.subs[i].cid # None
    /\ ~flags.subs[i].off
    /\ figure' = [Reset(figure) EXCEPT !.axes[a] = mpl_disconnect(@, flags.subs[i].cid[1])]
    /\ flags' = [flags EXCEPT !.subs[i].off = TRUE]
    /\ track' = Interrupt(track)
    /\ UNCHANGED gesture

\* a click on the Pan toggle button: its value flips
TogglePan ==
    /\ figure.toolbar # None
    /\ figure' = set_pan_button(Reset(figure), ~tb(figure).pan_button)
    /\ flags' = [flags EXCEPT !.tool_changed =
                    @ \/ ActiveTool(figure') # ActiveTool(figure)]
    /\ track' = Interrupt(track)
    /\ UNCHANGED gesture

\* a click on the Zoom toggle button: its value flips
ToggleZoom ==
    /\ figure.toolbar # None
    /\ figure' = set_zoom_button(Reset(figure), ~tb(figure).zoom_button)
    /\ flags' = [flags EXCEPT
            !.tool_changed = @ \/ ActiveTool(figure') # ActiveTool(figure),
            !.zoom_over_pan = @ \/ ( /\ ~tb(figure).zoom_button
                                     /\ ActiveTool(figure) = "pan"
                                     /\ gesture.tool = "pan" )]
    /\ track' = Interrupt(track)
    /\ UNCHANGED gesture

\* a click on the Home button
ClickHome ==
    /\ figure.toolbar # None
    /\ figure' = _on_home_clicked(Reset(figure))
    /\ flags' = [flags EXCEPT !.tool_changed =
                    @ \/ ActiveTool(figure') # ActiveTool(figure)]
    /\ track' = Interrupt(track)
    /\ UNCHANGED gesture

\* the canvas calls the handler every axes registered, in creation order
RECURSIVE CanvasMouseDown(_, _, _, _, _)
CanvasMouseDown(fig, a, x, y, now) ==
    IF a > Len(fig.axes) THEN fig
    ELSE CanvasMouseDown(_on_canvas_mouse_down(fig, a, x, y, now), a + 1, x, y, now)

RECURSIVE CanvasMouseUp(_, _, _, _)
CanvasMouseUp(fig, a, x, y) ==
    IF a > Len(fig.axes) THEN fig
    ELSE CanvasMouseUp(_on_canvas_mouse_up(fig, a, x, y), a + 1, x, y)

RECURSIVE CanvasMouseMove(_, _, _, _)
CanvasMouseMove(fig, a, x, y) ==
    IF a > Len(fig.axes) THEN fig
    ELSE CanvasMouseMove(_on_canvas_mouse_move(fig, a, x, y), a + 1, x, y)

\* is a tracked pan gesture pressed and not yet released?
InFlight(t) == t.cur.on /\ ~t.cur.released

\* the host reports a press at canvas point p, when the clock reads now;
\* the clock does not run backwards
MouseDown(p, now) ==
    LET a == Hit(figure, p)
        tool == ActiveTool(figure)
        started == a # 0 /\ tool # "none"
    IN  /\ figure.axes # <<>>
        /\ \A b \in 1..Len(figure.axes) : figure.axes[b]._last_click_time <= now
        /\ started => flags.presses <
                        (IF track.enabled THEN MaxPanGestures ELSE MaxGestures)
        /\ figure' = CanvasMouseDown(Reset(figure), 1, p[1], p[2], now)
        /\ gesture' =
             IF a = 0 THEN gesture
             ELSE IF ~started THEN NoGesture
             ELSE [ tool |-> tool, area |-> a, p0 |-> p,
                    data0 |-> inverse_transform(figure.axes[a], R(p[1]), R(p[2])) ]
        /\ flags' = IF started
                    THEN [flags EXCEPT !.presses = @ + 1, !.tool_changed = FALSE,
                                       !.zoom_over_pan = FALSE,
                                       !.last_press = [area |-> a, time |-> now, pos |-> p]]
                    ELSE IF a # 0
                    THEN [flags EXCEPT !.zoom_over_pan = FALSE,
                                       !.last_press = [area |-> a, time |-> now, pos |-> p]]
                    ELSE flags
        /\ track' =
             IF ~track.enabled THEN track
             ELSE IF a = 0
             THEN IF InFlight(track) THEN [track EXCEPT !.cur.quiet = FALSE] ELSE track
             ELSE IF ~(started /\ tool = "pan") THEN Interrupt(track)
             ELSE [track EXCEPT
                     !.prev = IF track.cur.on /\ track.cur.released /\ track.cur.area = a
                              THEN track.cur ELSE NoPan,
                     !.cur = [ on |-> TRUE, area |-> a, p0 |-> p,
                               limits0 |-> Limits(figure), end |-> p,
                               quiet |-> TRUE, released |-> FALSE, up |-> None ]]

\* the host reports a pointer move to canvas point p
MouseMove(p) ==
    LET a == Hit(figure, p)
    IN  /\ figure.axes # <<>>
        /\ figure' = CanvasMouseMove(Reset(figure), 1, p[1], p[2])
        /\ track' = IF ~InFlight(track) THEN track
                    ELSE IF a = track.cur.area
                    THEN [track EXCEPT !.cur.end = p, !.cur.quiet = FALSE]
                    ELSE [track EXCEPT !.cur.quiet = FALSE]
        /\ UNCHANGED <<gesture, flags>>

\* the host reports a release at canvas point p
MouseUp(p) ==
    LET a == Hit(figure, p)
    IN  /\ figure.axes # <<>>
        /\ figure' = CanvasMouseUp(Reset(figure), 1, p[1], p[2])
        /\ gesture' = IF a # 0 /\ a = gesture.area THEN NoGesture ELSE gesture
        /\ track' = IF ~InFlight(track) THEN track
                    ELSE IF a = track.cur.area
                    THEN [track EXCEPT !.cur.released = TRUE, !.cur.up = p]
                    ELSE [track EXCEPT !.cur.quiet = FALSE]
        /\ UNCHANGED flags

AxesIds == 1..Len(figure.axes)

(* The whole program: the plotting calls, the toolbar and the pointer.     *)

Next ==
    \/ AddSubplot
    \/ \E a \in AxesIds, y \in PlotArgs : Plot(a, y)
    \/ \E a \in AxesIds, args \in LimArgs : SetXlim(a, args[1], args[2])
    \/ \E a \in AxesIds, args \in LimArgs : SetYlim(a, args[1], args[2])
    \/ TogglePan
    \/ ToggleZoom
    \/ ClickHome
    \/ \E p \in Points, now \in NavTimes : MouseDown(p, now)
    \/ \E p \in Points : MouseMove(p)
    \/ \E p \in Points : MouseUp(p)

Spec == Init /\ [][Next]_vars

(* Navigation: the toolbar and the pointer on a plot area without lines.   *)

NextNav ==
    \/ AddSubplot
    \/ \E a \in AxesIds, args \in LimArgs : SetXlim(a, args[1], args[2])
    \/ \E a \in AxesIds, args \in LimArgs : SetYlim(a, args[1], args[2])
    \/ TogglePan
    \/ ToggleZoom
    \/ ClickHome
    \/ \E p \in Points, now \in NavTimes : MouseDown(p, now)
    \/ \E p \in Points : MouseMove(p)
    \/ \E p \in Points : MouseUp(p)

SpecNav == Init /\ [][NextNav]_vars

(* The plotting calls alone.                                               *)

NextAxes ==
    \/ AddSubplot
    \/ \E a \in AxesIds, y \in PlotArgs : Plot(a, y)
    \/ \E a \in AxesIds, xy \in PlotXYArgs : PlotXY(a, xy[1], xy[2])
    \/ \E a \in AxesIds, args \in BadPlotArgs : PlotBadArgs(a, args)
    \/ \E a \in AxesIds, args \in AllLimArgs : SetXlim(a, args[1], args[2])
    \/ \E a \in AxesIds, args \in AllLimArgs : SetYlim(a, args[1], args[2])

SpecAxes == Init /\ [][NextAxes]_vars

(* The pointer over a plot area with one callback of the user on the press *)
(* channel: presses at several points and times, moves and releases.       *)

NextClick ==
    \/ AddSubplot
    \/ \E a \in AxesIds : AddCallback(a, "add_click_callback", "cb1")
    \/ \E p \in ClickPoints, now \in Times : MouseDown(p, now)
    \/ \E p \in ClickPoints : MouseMove(p)
    \/ \E p \in ClickPoints : MouseUp(p)

SpecClick == Init /\ [][NextClick]_vars

(* Subscriptions: the user's callbacks on the four channels, lines with    *)
(* and without a picker, and the pointer.                                  *)

NextEvents ==
    \/ AddSubplot
    \/ \E a \in AxesIds, y \in {<<R(0), R(10)>>}, picker \in Pickers :
           PlotPicker(a, y, picker)
    \/ \E a \in AxesIds, t \in EventTypes, cb \in Callbacks : Connect(a, t, cb)
    \/ \E a \in AxesIds, h \in Helpers, cb \in Callbacks : AddCallback(a, h, cb)
    \/ \E a \in AxesIds, i \in 1..MaxConnect : Disconnect(a, i)
    \/ \E p \in EventPoints, now \in NavTimes : MouseDown(p, now)
    \/ \E p \in EventPoints : MouseMove(p)
    \/ \E p \in EventPoints : MouseUp(p)

SpecEvents == Init /\ [][NextEvents]_vars

(* The pan tool alone, with the pure pan gestures tracked: a plot area     *)
(* whose limits were set, the Pan button, and the pointer.                 *)

InitPan ==
    /\ figure = FigureInit
    /\ InitHistory
    /\ track = [ enabled |-> TRUE, cur |-> NoPan, prev |-> NoPan ]

NextPan ==
    \/ AddSubplot
    \/ \E a \in AxesIds, args \in LimArgs : SetXlim(a, args[1], args[2])
    \/ \E a \in AxesIds, args \in LimArgs : SetYlim(a, args[1], args[2])
    \/ TogglePan
    \/ \E p \in Points, now \in NavTimes : MouseDown(p, now)
    \/ \E p \in Points : MouseMove(p)
    \/ \E p \in Points : MouseUp(p)

SpecPan == InitPan /\ [][NextPan]_vars

(* Several plot areas under the toolbar: add_subplot called again, the two *)
(* toggles and the pointer.  Every plot area covers the same rectangle, so *)
(* the canvas hands each event inside it to every plot area in turn, and   *)
(* the toolbar's handlers see it once per plot area.                       *)

NextTarget ==
    \/ AddSubplot
    \/ AddSubplotAgain
    \/ TogglePan
    \/ ToggleZoom
    \/ \E p \in Points, now \in NavTimes : MouseDown(p, now)
    \/ \E p \in Points : MouseMove(p)
    \/ \E p \in Points : MouseUp(p)

SpecTarget == Init /\ [][NextTarget]_vars

-----------------------------------------------------------------------------
(* Properties of the plotting calls, checked under SpecAxes.               *)

\* the series a property tries at every reachable state: those the actions
\* use, one narrower than the default limits, one of unequal lengths
TrySeries ==
    { xy \in PlotXYArgs : xy[1] # <<>> /\ xy[2] # <<>> }
               \cup { <<arange(Len(y)), y>> : y \in PlotArgs }
               \cup { << <<<<1, 4>>, <<1, 2>>>>, <<<<1, 4>>, <<1, 2>>>> >>,
                      << <<R(-1), R(9), R(4)>>, <<R(6)>> >> }

\* the limit arguments a property tries at every reachable state
TryLims == AllLimArgs \cup { <<None, None>>, <<None, R(-3)>> }

Overwrite(lim, lo, hi) ==
    << IF lo # None THEN lo ELSE lim[1], IF hi # None THEN hi ELSE lim[2] >>

Union(lim, data) == << RMin(lim[1], SeqMin(data)), RMax(lim[2], SeqMax(data)) >>

\* C5: a series plotted on an axis that is still autoscaling, on a plot area
\* that already holds an artist, leaves that axis with the union of its
\* previous limits and the range of the data.
C5_AutoscaleGrows ==
    [][ \A a \in AxesIds, y \in PlotArgs :
            ( /\ Plot(a, y)
              /\ Len(figure.axes[a].lines) >= 1 )
            => /\ figure.axes[a]._autoscale_x =>
                    figure'.axes[a]._xlim =
                        Union(figure.axes[a]._xlim, arange(Len(y)))
               /\ figure.axes[a]._autoscale_y =>
                    figure'.axes[a]._ylim = Union(figure.axes[a]._ylim, y) ]_vars

\* C6: a series plotted on a plot area without artists leaves each axis that
\* is autoscaling with exactly [min(data), max(data)], whatever its limits
\* were.
C6_FirstPlotExact ==
    \A a \in AxesIds, xy \in TrySeries :
        figure.axes[a].lines = <<>> =>
            LET before == figure.axes[a]
                after == plot(Reset(figure), a, xy[1], xy[2]).fig.axes[a]
            IN  /\ before._autoscale_x =>
                      after._xlim = <<SeqMin(xy[1]), SeqMax(xy[1])>>
                /\ before._autoscale_y =>
                      after._ylim = <<SeqMin(xy[2]), SeqMax(xy[2])>>

\* a first plot(x, y) has replaced the default limits of both axes
C6_Witness ==
    \E a \in AxesIds :
        /\ Len(figure.axes[a].lines) = 1
        /\ figure.axes[a]._autoscale_x /\ figure.axes[a]._autoscale_y
        /\ figure.axes[a]._xlim = <<R(3), R(7)>>
        /\ figure.axes[a]._ylim = <<R(-5), R(5)>>

\* C7: set_xlim overwrites the bounds it is given and keeps the other, fixes
\* the x axis, and leaves ylim and the y autoscale flag alone; while the x
\* axis is fixed a plot leaves xlim unchanged and the axis fixed.  set_ylim
\* is symmetric.
C7_SetLimFrame ==
    \A a \in AxesIds :
        LET ax == figure.axes[a]
        IN  /\ \A args \in TryLims :
                 LET sx == set_xlim(ax, args[1], args[2])
                     sy == set_ylim(ax, args[1], args[2])
                 IN  /\ sx._xlim = Overwrite(ax._xlim, args[1], args[2])
                     /\ ~sx._autoscale_x
                     /\ sx._ylim = ax._ylim
                     /\ sx._autoscale_y = ax._autoscale_y
                     /\ sy._ylim = Overwrite(ax._ylim, args[1], args[2])
                     /\ ~sy._autoscale_y
                     /\ sy._xlim = ax._xlim
                     /\ sy._autoscale_x = ax._autoscale_x
            /\ \A xy \in TrySeries :
                 LET after == plot(Reset(figure), a, xy[1], xy[2]).fig.axes[a]
                 IN  /\ ~ax._autoscale_x =>
                          after._xlim = ax._xlim /\ ~after._autoscale_x
                     /\ ~ax._autoscale_y =>
                          after._ylim = ax._ylim /\ ~after._autoscale_y

\* set_xlim(2) came before a plot: the left bound is 2, the right bound is
\* the default, and y was autoscaled to the series
C7_Witness ==
    \E a \in AxesIds :
        /\ figure.axes[a]._xlim = <<R(2), R(1)>>
        /\ ~figure.axes[a]._autoscale_x
        /\ figure.axes[a]._autoscale_y
        /\ Len(figure.axes[a].lines) = 1
        /\ figure.axes[a]._ylim = <<R(0), R(10)>>

-----------------------------------------------------------------------------
(* Properties of the toolbar, checked under SpecNav.                       *)

\* every pixel of the canvas that lies in some plot area
Pixels ==
    UNION { (figure.axes[a].x .. figure.axes[a].x + figure.axes[a].width)
               \X (figure.axes[a].y .. figure.axes[a].y + figure.axes[a].height) :
            a \in AxesIds }

\* C1: the active tool is one of None, Pan, Zoom and the two toggle buttons
\* are never both on; toggling Pan on makes Pan the tool and turns Zoom off,
\* toggling Zoom on makes Zoom the tool and turns Pan off, and toggling off
\* the button of the active tool leaves no tool active.
C1_RadioButtons ==
    figure.toolbar # None =>
        LET t == tb(figure)
            pan_on == tb(set_pan_button(Reset(figure), TRUE))
            pan_off == tb(set_pan_button(Reset(figure), FALSE))
            zoom_on == tb(set_zoom_button(Reset(figure), TRUE))
            zoom_off == tb(set_zoom_button(Reset(figure), FALSE))
        IN  /\ t._active_tool \in {"none", "pan", "zoom"}
            /\ ~(t.pan_button /\ t.zoom_button)
            /\ ~t.pan_button =>
                  /\ pan_on._active_tool = "pan"
                  /\ pan_on.pan_button /\ ~pan_on.zoom_button
            /\ ~t.zoom_button =>
                  /\ zoom_on._active_tool = "zoom"
                  /\ zoom_on.zoom_button /\ ~zoom_on.pan_button
            /\ t.pan_button /\ t._active_tool = "pan" =>
                  /\ pan_off._active_tool = "none"
                  /\ ~pan_off.pan_button
            /\ t.zoom_button /\ t._active_tool = "zoom" =>
                  /\ zoom_off._active_tool = "none"
                  /\ ~zoom_off.zoom_button

\* Zoom was toggled on while Pan was the tool: Zoom is the tool, Pan is off
C1_Witness ==
    /\ flags.zoom_over_pan
    /\ ActiveTool(figure) = "zoom"
    /\ tb(figure).zoom_button /\ ~tb(figure).pan_button

\* C2: toggling Zoom on while a pan gesture is in flight makes Zoom the tool,
\* and from then until the next press no move event changes the limits of
\* any plot area.
C2_ZoomDiscardsPan ==
    [][ /\ ( /\ ToggleZoom
             /\ ~tb(figure).zoom_button
             /\ ActiveTool(figure) = "pan"
             /\ gesture.tool = "pan" )
           => ActiveTool(figure') = "zoom"
        /\ \A p \in Points :
              flags.zoom_over_pan /\ MouseMove(p)
                 => Limits(figure') = Limits(figure) ]_vars

\* C3: after a change of the active tool, no move event and no release event
\* changes the limits of any plot area until a press is received under the
\* tool then active.
C3_ToolChangeDiscardsGesture ==
    [][ \A p \in Points :
            flags.tool_changed /\ (MouseMove(p) \/ MouseUp(p))
               => Limits(figure') = Limits(figure) ]_vars

\* C10: with Zoom active, a release on the plot area of a press made under
\* Zoom, less than 0.01 away from the press point in x and in y (in data
\* space), leaves the limits unchanged, clears the active area and leaves
\* the preview not visible.
C10_ZoomTooSmall ==
    \A p \in Pixels :
        LET a == Hit(figure, p)
            data == inverse_transform(figure.axes[a], R(p[1]), R(p[2]))
            after == CanvasMouseUp(Reset(figure), 1, p[1], p[2])
        IN  ( /\ ActiveTool(figure) = "zoom"
              /\ gesture.tool = "zoom"
              /\ gesture.area = a
              /\ RLt(RAbs(RSub(data[1], gesture.data0[1])), MinSize)
              /\ RLt(RAbs(RSub(data[2], gesture.data0[2])), MinSize) )
            => /\ Limits(after) = Limits(figure)
               /\ tb(after)._active_axes = 0
               /\ ~tb(after)._zoom_rect_visible

\* the one press was made under Zoom and has been released; the limits are
\* still those set_xlim and set_ylim left, in which every two points of the
\* plot area are less than 0.01 apart
C10_Witness ==
    /\ ActiveTool(figure) = "zoom"
    /\ flags.presses = 1
    /\ gesture = NoGesture
    /\ tb(figure)._pan_start_canvas = None
    /\ tb(figure)._zoom_rect_start = None
    /\ tb(figure)._active_axes = 0
    /\ ~tb(figure)._zoom_rect_visible
    /\ Limits(figure)[1] = << <<R(0), <<1, 100>> >>, <<R(0), <<1, 100>> >> >>

\* C11: with Zoom active, a release on the plot area of a press made under
\* Zoom is a no-op click only if the x extent and the y extent between the
\* press data point and the release data point are both below 0.01; in
\* every other case xlim becomes [min, max] of the two x values and ylim
\* [min, max] of the two y values.
C11_ZoomApplied ==
    [][ \A p \in Points :
            LET a == Hit(figure, p)
                data == inverse_transform(figure.axes[a], R(p[1]), R(p[2]))
                x0 == gesture.data0[1]
                y0 == gesture.data0[2]
            IN  ( /\ MouseUp(p)
                  /\ ActiveTool(figure) = "zoom"
                  /\ gesture.tool = "zoom"
                  /\ a # 0 /\ gesture.area = a )
                => IF /\ RLt(RAbs(RSub(data[1], x0)), MinSize)
                      /\ RLt(RAbs(RSub(data[2], y0)), MinSize)
                   THEN Limits(figure') = Limits(figure)
                   ELSE Limits(figure')[a] =
                          << <<RMin(x0, data[1]), RMax(x0, data[1])>>,
                             <<RMin(y0, data[2]), RMax(y0, data[2])>> >> ]_vars

\* a press made under the tool that is now active, since that tool was
\* activated, is still waiting for its release
Matched ==
    /\ gesture.tool # "none"
    /\ gesture.tool = ActiveTool(figure)
    /\ ~flags.tool_changed

\* the tool state of the toolbar: the active tool and the two toggles
ToolState(fig) ==
    <<tb(fig)._active_tool, tb(fig).pan_button, tb(fig).zoom_button>>

\* C22: a release without a matching press under the active tool (no press
\* since the tool was activated, or since the last release) raises no error
\* and changes neither the limits of any plot area nor the tool state.
C22_UnmatchedRelease ==
    [][ \A p \in Points :
            MouseUp(p) /\ ~Matched
               => /\ figure'.raised = None
                  /\ Limits(figure') = Limits(figure)
                  /\ ToolState(figure') = ToolState(figure) ]_vars

\* C25: right after a toggle of the Pan or the Zoom button, whether or not
\* a gesture is in flight, no plot area is the active area and the preview
\* rectangle is not visible.
C25_ToggleClearsGesture ==
    [][ TogglePan \/ ToggleZoom
           => /\ tb(figure')._active_axes = 0
              /\ ~tb(figure')._zoom_rect_visible ]_vars

\* the clicks on the toggle button of a tool that make it the active tool
\* again after Home: one to release the button, one to press it
Reactivate(fig, tool) ==
    IF tool = "pan"
    THEN set_pan_button(set_pan_button(fig, FALSE), TRUE)
    ELSE set_zoom_button(set_zoom_button(fig, FALSE), TRUE)

\* C26: Home, invoked while a pan or zoom gesture is in flight, clears the
\* active area and the anchors of the gesture, and no move or release that
\* follows it changes the limits of a plot area, not even once the tool is
\* active again.
C26_HomeAbandons ==
    Matched =>
        LET home == _on_home_clicked(Reset(figure))
            again == Reactivate(home, gesture.tool)
        IN  /\ tb(home)._active_axes = 0
            /\ tb(home)._pan_start_canvas = None
            /\ tb(home)._pan_start_limits = None
            /\ tb(home)._zoom_rect_start = None
            /\ \A p \in Points :
                  /\ Limits(CanvasMouseMove(home, 1, p[1], p[2])) = Limits(home)
                  /\ Limits(CanvasMouseUp(home, 1, p[1], p[2])) = Limits(home)
                  /\ Limits(CanvasMouseMove(again, 1, p[1], p[2])) = Limits(home)
                  /\ Limits(CanvasMouseUp(again, 1, p[1], p[2])) = Limits(home)

\* C30: a pointer event handled by the toolbar, or a click on Home, that
\* changes the limits of a plot area redraws the figure before it returns.
C30_RedrawAfterLimits ==
    [][ ( /\ \/ \E p \in Points : MouseMove(p) \/ MouseUp(p)
             \/ ClickHome
          /\ Limits(figure') # Limits(figure) )
        => \E i \in 1..Len(figure'.canvas) : figure'.canvas[i] = "draw" ]_vars

\* every preview rectangle in a sequence of canvas calls comes right after
\* a repaint of the background and the plot areas
RepaintedFirst(calls) ==
    \A i \in 1..Len(calls) :
        calls[i] = "rect" => i > 1 /\ calls[i - 1] = "repaint"

\* C31: the preview rectangle is drawn only right after a repaint of the
\* figure within the same event, and only while the rectangle-visible flag
\* is set; after a release under Zoom on the plot area of a press made
\* under Zoom the flag is false and the canvas was redrawn in full, without
\* the rectangle.
C31_PreviewOrdering ==
    [][ /\ RepaintedFirst(figure'.canvas)
        /\ (\E i \in 1..Len(figure'.canvas) : figure'.canvas[i] = "rect")
              => tb(figure)._zoom_rect_visible /\ tb(figure')._zoom_rect_visible
        /\ \A p \in Points :
              ( /\ MouseUp(p)
                /\ ActiveTool(figure) = "zoom"
                /\ gesture.tool = "zoom"
                /\ Hit(figure, p) = gesture.area )
              => /\ ~tb(figure')._zoom_rect_visible
                 /\ ~figure'.rect_painted
                 /\ tb(figure)._zoom_rect_visible =>
                       figure'.canvas # <<>> /\ figure'.canvas[1] = "draw" ]_vars

\* a zoom gesture has shown its preview and was released: the last release
\* redrew the figure, the rectangle is gone and the flag is false
C31_Witness ==
    /\ ActiveTool(figure) = "zoom"
    /\ flags.presses = 1
    /\ gesture = NoGesture
    /\ tb(figure)._zoom_rect_start = None
    /\ figure.axes[1]._current_mouse_pos # None
    /\ figure.canvas # <<>> /\ figure.canvas[1] = "draw"
    /\ ~tb(figure)._zoom_rect_visible
    /\ ~figure.rect_painted

\* what a redraw must leave alone: the limits and the autoscale flags of
\* every plot area, the active tool and area, the zoom anchor, the home views
Persisted(fig) ==
    << Limits(fig),
       [a \in 1..Len(fig.axes) |->
           <<fig.axes[a]._autoscale_x, fig.axes[a]._autoscale_y>>],
       tb(fig)._active_tool, tb(fig)._active_axes,
       tb(fig)._zoom_rect_start, tb(fig)._zoom_rect_start_canvas,
       tb(fig)._home_views >>

\* a press under Zoom, the active tool, is waiting for its release
ZoomInFlight == Matched /\ gesture.tool = "zoom"

\* C32: a redraw of the figure, and every move event during a zoom gesture,
\* leave the limits and autoscale flags of every plot area, the active
\* tool, the active area, the zoom anchor and the home views unchanged.
C32_RedrawKeepsState ==
    figure.toolbar # None =>
        /\ Persisted(draw(Reset(figure))) = Persisted(figure)
        /\ ZoomInFlight =>
              \A p \in Points :
                  Persisted(CanvasMouseMove(Reset(figure), 1, p[1], p[2]))
                     = Persisted(figure)

\* a zoom gesture in flight has handled a move: the preview is on the
\* canvas and the anchor is still the press point
C32_Witness ==
    /\ ZoomInFlight
    /\ figure.rect_painted
    /\ tb(figure)._zoom_rect_start = gesture.data0
    /\ tb(figure)._zoom_rect_start_canvas = gesture.p0
    /\ tb(figure)._active_axes = gesture.area

\* C33: a move event changes the limits of a plot area only if Pan is the
\* active tool and a press on that plot area, made while Pan was active,
\* has been followed by no release on it, no tool toggle and no Home.
C33_MoveNeedsPress ==
    [][ \A p \in Points, a \in AxesIds :
            MouseMove(p) /\ Limits(figure')[a] # Limits(figure)[a]
               => /\ ActiveTool(figure) = "pan"
                  /\ Matched
                  /\ gesture.area = a ]_vars

\* C34: the active tool is Pan exactly when the Pan button is on, Zoom
\* exactly when the Zoom button is on, and None exactly when both are off.
C34_ToolMatchesButtons ==
    figure.toolbar # None =>
        LET t == tb(figure)
        IN  /\ t._active_tool = "pan" <=> t.pan_button
            /\ t._active_tool = "zoom" <=> t.zoom_button
            /\ t._active_tool = "none" <=> ~t.pan_button /\ ~t.zoom_button

\* how many times x occurs in a sequence
Count(seq, x) == Cardinality({ i \in 1..Len(seq) : seq[i] = x })

\* C38: once add_subplot has created the first plot area, each of the
\* toolbar's press, move and release handlers is in the corresponding
\* callback list of that plot area exactly once.
C38_SingleRegistration ==
    figure.axes # <<>> /\ figure.toolbar # None =>
        /\ Count(figure.axes[1]._mouse_press_callbacks, "_on_mouse_press") = 1
        /\ Count(figure.axes[1]._mouse_motion_callbacks, "_on_mouse_move") = 1
        /\ Count(figure.axes[1]._mouse_release_callbacks, "_on_mouse_release") = 1

\* is one of the two ranges of a plot area empty (hi = lo)?
Degenerate(ax) == ax._xlim[1] = ax._xlim[2] \/ ax._ylim[1] = ax._ylim[2]

\* data points the transform is tried on
TryData == { <<R(3), R(3)>>, <<R(5), R(0)>>, <<<<7, 2>>, R(-4)>> }

\* C13: on a plot area whose x range or y range is empty, the data-to-pixel
\* transform returns no infinite and no not-a-number coordinate, and a
\* press on the plot area, which evaluates the pixel-to-data transform, ends
\* in a DegenerateTransform error.
C13_DegenerateSignalled ==
    \A a \in AxesIds :
        Degenerate(figure.axes[a]) =>
            /\ \A d \in TryData :
                 LET c == transform(figure.axes[a], d[1], d[2])
                 IN  IsFinite(c[1]) /\ IsFinite(c[2])
            /\ \A p \in Points, now \in NavTimes :
                 Hit(figure, p) = a =>
                     _on_canvas_mouse_down(Reset(figure), a, p[1], p[2], now).raised
                         = <<"DegenerateTransform">>

\* are both ranges of a plot area increasing, and its pixel size positive?
Regular(ax) ==
    /\ RLt(ax._xlim[1], ax._xlim[2]) /\ RLt(ax._ylim[1], ax._ylim[2])
    /\ ax.width > 0 /\ ax.height > 0

\* is a pixel point (rational) outside the rectangle of a plot area?
Outside(ax, c) ==
    \/ RLt(c[1], R(ax.x)) \/ RLt(R(ax.x + ax.width), c[1])
    \/ RLt(c[2], R(ax.y)) \/ RLt(R(ax.y + ax.height), c[2])

\* C15: on a plot area with xlim.lo < xlim.hi, ylim.lo < ylim.hi and a
\* positive pixel size, inverse_transform(transform(x, y)) = (x, y) for
\* every data point, also when its pixel lies outside the plot area.
C15_RoundTrip ==
    \A a \in AxesIds, d \in TryData :
        Regular(figure.axes[a]) =>
            LET c == transform(figure.axes[a], d[1], d[2])
            IN  inverse_transform(figure.axes[a], c[1], c[2]) = d

\* a plot area whose limits are no longer the default, with a data point
\* whose pixel is outside the plot area and one whose pixel is inside it
C15_Witness ==
    \E a \in AxesIds :
        LET ax == figure.axes[a]
        IN  /\ Regular(ax)
            /\ ax._xlim # <<R(0), R(1)>> /\ ax._ylim # <<R(0), R(1)>>
            /\ \E d \in TryData : Outside(ax, transform(ax, d[1], d[2]))
            /\ \E d \in TryData : ~Outside(ax, transform(ax, d[1], d[2]))

\* does a series hold no value, or one value only?
OneValue(s) == s = <<>> \/ SeqMin(s) = SeqMax(s)

\* C14: after a plot of a series that is empty or holds a single value, each
\* axis that was autoscaling has limits with lo < hi.
C14_DegeneratePadded ==
    [][ \A a \in AxesIds, xy \in PlotXYArgs :
            PlotXY(a, xy[1], xy[2]) =>
                /\ (figure.axes[a]._autoscale_x /\ OneValue(xy[1])) =>
                      RLt(figure'.axes[a]._xlim[1], figure'.axes[a]._xlim[2])
                /\ (figure.axes[a]._autoscale_y /\ OneValue(xy[2])) =>
                      RLt(figure'.axes[a]._ylim[1], figure'.axes[a]._ylim[2]) ]_vars

C29_LimitsOrdered ==
    \A a \in AxesIds :
        /\ RLt(figure.axes[a]._xlim[1], figure.axes[a]._xlim[2])
        /\ RLt(figure.axes[a]._ylim[1], figure.axes[a]._ylim[2])

\* C35: the limits the shadow axes holds for the ticks equal xlim and ylim
\* of the plot area in every reachable state, that is, after every operation
\* that changes them.
C35_ShadowInSync ==
    \A a \in AxesIds :
        /\ figure.axes[a]._shadow_ax_xlim = figure.axes[a]._xlim
        /\ figure.axes[a]._shadow_ax_ylim = figure.axes[a]._ylim

\* the series of different lengths a property tries at every reachable state
Mismatched ==
    { << <<R(-1), R(9), R(4)>>, <<R(6)>> >>, << <<R(2), R(3)>>, <<R(1), R(5), R(0)>> >> }

\* C21: plot(x, y) with x and y of different lengths ends in an error, and
\* leaves the artists, the limits and the autoscale flags of the plot area
\* as they were before the call.
C21_MismatchedFailFast ==
    \A a \in AxesIds, xy \in Mismatched :
        LET before == figure.axes[a]
            result == plot(Reset(figure), a, xy[1], xy[2])
            after == result.fig.axes[a]
        IN  /\ result.fig.raised # None
            /\ after.lines = before.lines
            /\ after._xlim = before._xlim
            /\ after._ylim = before._ylim
            /\ after._autoscale_x = before._autoscale_x
            /\ after._autoscale_y = before._autoscale_y

-----------------------------------------------------------------------------
(* Double click, checked under SpecClick.                                  *)

\* the presses the host can deliver next: a point of a plot area, and a
\* reading of the clock that is not before the last press
NextPresses ==
    { c \in ClickPoints \X Times :
        /\ Hit(figure, c[1]) # 0
        /\ figure.axes[Hit(figure, c[1])]._last_click_time <= c[2] }

\* the double-click flags the subscribers of a press at p at time now receive
FlagsDelivered(p, now) ==
    LET after == _on_canvas_mouse_down(Reset(figure), Hit(figure, p), p[1], p[2], now)
    IN  { after.called[i][2].dblclick : i \in 1..Len(after.called) }

\* the press handler's record of the last press, after a press at p at time now
LastClick(p, now) ==
    LET a == Hit(figure, p)
        after == _on_canvas_mouse_down(Reset(figure), a, p[1], p[2], now)
    IN  <<after.axes[a]._last_click_time, after.axes[a]._last_click_pos>>

\* was the previous press on the plot area under p less than 300 ms before
\* now?  (the previous press is the one the host delivered, flags.last_press)
PreviousInTime(p, now) ==
    /\ flags.last_press # None
    /\ flags.last_press.area = Hit(figure, p)
    /\ now - flags.last_press.time < 300

\* C12 as stated: the press is flagged iff the previous press on the plot
\* area was less than 300 ms earlier and its distance to this press, the
\* Euclidean distance between the two pixels, is less than 5; and the last
\* press time and position become those of this press.
C12_DoubleClickDistance ==
    \A c \in NextPresses :
        LET p == c[1]
            now == c[2]
            dx == p[1] - flags.last_press.pos[1]
            dy == p[2] - flags.last_press.pos[2]
        IN  /\ FlagsDelivered(p, now) \subseteq
                 { PreviousInTime(p, now) /\ dx * dx + dy * dy < 5 * 5 }
            /\ LastClick(p, now) = <<now, p>>

\* C12 amended: the press is flagged iff the previous press on the plot area
\* was less than 300 ms earlier and less than 5 pixels away from this press
\* in x and less than 5 pixels away in y; the last press time and position
\* become those of this press.
C12_DoubleClick ==
    \A c \in NextPresses :
        LET p == c[1]
            now == c[2]
            dx == p[1] - flags.last_press.pos[1]
            dy == p[2] - flags.last_press.pos[2]
        IN  /\ FlagsDelivered(p, now) \subseteq
                 { PreviousInTime(p, now) /\ Abs(dx) < 5 /\ Abs(dy) < 5 }
            /\ LastClick(p, now) = <<now, p>>

\* a callback is subscribed, the last press was at (80, 20) at 1000 ms, and
\* the subscriber would see a press at the same pixel flagged 200 ms later
\* and not flagged 600 ms later, and a press (4, 4) pixels away flagged
C12_Witness ==
    /\ flags.last_press = [area |-> 1, time |-> 1000, pos |-> <<80, 20>>]
    /\ FlagsDelivered(<<80, 20>>, 1200) = {TRUE}
    /\ FlagsDelivered(<<80, 20>>, 1600) = {FALSE}
    /\ FlagsDelivered(<<84, 24>>, 1200) = {TRUE}
    /\ FlagsDelivered(<<88, 24>>, 1200) = {FALSE}

-----------------------------------------------------------------------------
(* Subscriptions, checked under SpecEvents.                                *)

\* the figure after the canvas handler of an event type, of axes a, was
\* called with canvas point p
Deliver(event_type, a, p) ==
    CASE event_type = "button_press_event" ->
             _on_canvas_mouse_down(Reset(figure), a, p[1], p[2], 1000)
      [] event_type = "button_release_event" ->
             _on_canvas_mouse_up(Reset(figure), a, p[1], p[2])
      [] event_type = "motion_notify_event" ->
             _on_canvas_mouse_move(Reset(figure), a, p[1], p[2])

\* the user's callbacks an event at canvas point p is delivered to, in the
\* order of the calls
Invoked(event_type, a, p) ==
    LET log == SelectSeq(Deliver(event_type, a, p).called,
                         LAMBDA c : c[2].name = event_type)
    IN  [i \in 1..Len(log) |-> log[i][1]]

\* the callbacks subscribed to an event type, in the order of their
\* registration: all of them, and those that were not disconnected since
Registered(event_type) ==
    LET subs == SelectSeq(flags.subs, LAMBDA r : r.event_type = event_type)
    IN  [i \in 1..Len(subs) |-> subs[i].callback]

Live(event_type) ==
    LET subs == SelectSeq(flags.subs, LAMBDA r : r.event_type = event_type /\ ~r.off)
    IN  [i \in 1..Len(subs) |-> subs[i].callback]

PointerEvents == {"button_press_event", "button_release_event", "motion_notify_event"}

\* C16: an event on a channel is delivered to the callbacks subscribed to
\* the channel and not disconnected since, and to no other: a callback is
\* not invoked after mpl_disconnect was called with the id mpl_connect
\* returned for it, and the other subscriptions are invoked as before.
C16_Unsubscribed ==
    \A a \in AxesIds, t \in PointerEvents, p \in EventPoints :
        Hit(figure, p) = a => Invoked(t, a, p) = Live(t)

\* the calls a press at canvas point p on axes a makes to the user's
\* callbacks, in order, each with the name of the event it received
PressCalls(a, p) ==
    LET log == _on_canvas_mouse_down(Reset(figure), a, p[1], p[2], 1000).called
    IN  [i \in 1..Len(log) |-> <<log[i][1], log[i][2].name>>]

\* Every line of SpecEvents is the series (0, 10) drawn over limits equal to
\* its range: the segment from the bottom-left to the top-right corner of
\* the plot area.  A pixel is within the pick tolerance of 5 pixels of that
\* segment's line iff cross^2 <= 5^2 * length^2.
NearLine(ax, p) ==
    LET dx == ax.width
        dy == -ax.height
        cross == (p[1] - ax.x) * dy - (p[2] - (ax.y + ax.height)) * dx
    IN  cross * cross <= 5 * 5 * (dx * dx + dy * dy)

\* the lines a press at p picks: those with a picker that contain p, in
\* draw order
Picked(ax, p) ==
    SelectSeq([i \in 1..Len(ax.lines) |-> i],
              LAMBDA i : ax.lines[i].picker # None /\ NearLine(ax, p))

\* C18: for a press inside a plot area the press subscribers are called
\* before any pick notification, and the pick subscribers (those not
\* disconnected) then receive one pick notification for each line that has
\* a picker and contains the press point, and none for any other line.
C18_PickOrder ==
    \A a \in AxesIds, p \in EventPoints :
        Hit(figure, p) = a =>
            LET calls == PressCalls(a, p)
                picks == SelectSeq(calls, LAMBDA c : c[2] = "pick_event")
            IN  /\ \A i, j \in 1..Len(calls) :
                     (calls[i][2] = "button_press_event" /\ calls[j][2] = "pick_event")
                         => i < j
                /\ Len(picks) = Len(Picked(figure.axes[a], p)) * Len(Live("pick_event"))

\* is s a subsequence of t?
RECURSIVE IsSubSeq(_, _)
IsSubSeq(s, t) ==
    IF s = <<>> THEN TRUE
    ELSE IF t = <<>> THEN FALSE
    ELSE IF Head(s) = Head(t) THEN IsSubSeq(Tail(s), Tail(t))
    ELSE IsSubSeq(s, Tail(t))

\* C17: an event delivered on the press, release or move channel invokes
\* the callbacks registered on the channel in the order of registration,
\* each once per registration, whether mpl_connect or a helper registered
\* them: while no subscription of the channel was disconnected the calls are
\* exactly the registered callbacks in order, and in any case the
\* subscriptions not disconnected are called in their order.  (No event is
\* ever delivered on the pick channel.)
C17_RegistrationOrder ==
    \A a \in AxesIds, t \in PointerEvents, p \in EventPoints :
        Hit(figure, p) = a =>
            /\ Live(t) = Registered(t) => Invoked(t, a, p) = Registered(t)
            /\ IsSubSeq(Live(t), Invoked(t, a, p))

\* two different callbacks are on the press channel, the first registered
\* by the helper and the second by mpl_connect, and a press calls both
C17_Witness ==
    /\ Len(flags.subs) = 2
    /\ flags.subs[1].event_type = "button_press_event" /\ flags.subs[1].cid = None
    /\ flags.subs[1].callback = "cb2"
    /\ flags.subs[2].event_type = "button_press_event" /\ flags.subs[2].cid # None
    /\ flags.subs[2].callback = "cb1"
    /\ Invoked("button_press_event", 1, <<84, 22>>) = <<"cb2", "cb1">>

\* canvas points a property tries: the four corners of the plot area, its
\* centre, a point one pixel beyond each edge, and the canvas origin
TryPixels == { <<80, 20>>, <<88, 20>>, <<80, 24>>, <<88, 24>>, <<84, 22>>,
               <<79, 22>>, <<89, 22>>, <<84, 19>>, <<84, 25>>, <<0, 0>> }

\* C19: a press, release or move is delivered to the subscribers of a plot
\* area iff its pixel lies in the closed rectangle [x, x+width] x
\* [y, y+height]; outside it no callback is called and the figure does not
\* change, except that a move records the pointer position, which it does
\* inside and outside.
C19_HitTest ==
    \A a \in AxesIds, t \in PointerEvents, p \in TryPixels :
        LET ax == figure.axes[a]
            after == Deliver(t, a, p)
            inside == /\ p[1] \in ax.x..(ax.x + ax.width)
                      /\ p[2] \in ax.y..(ax.y + ax.height)
        IN  /\ inside => IsSubSeq(Live(t), Invoked(t, a, p))
            /\ ~inside =>
                 /\ after.called = <<>>
                 /\ after = [Reset(figure) EXCEPT !.axes[a]._current_mouse_pos =
                                IF t = "motion_notify_event" THEN p ELSE @]
            /\ t = "motion_notify_event" => after.axes[a]._current_mouse_pos = p

\* callbacks are subscribed to presses and to moves, the button is down
\* after a press at the centre, and the pointer was last seen there; a
\* press on the corner (88, 24) is delivered, one at (89, 22) is not
C19_Witness ==
    /\ figure.axes # <<>>
    /\ Registered("button_press_event") # <<>>
    /\ Registered("motion_notify_event") # <<>>
    /\ figure.axes[1]._mouse_pressed
    /\ figure.axes[1]._last_click_pos = <<84, 22>>
    /\ figure.axes[1]._current_mouse_pos = <<84, 22>>
    /\ Invoked("button_press_event", 1, <<88, 24>>) # <<>>
    /\ Invoked("button_press_event", 1, <<89, 22>>) = <<>>

\* C37: the ids mpl_connect has returned on the plot area are pairwise
\* distinct, whatever the channels of the subscriptions and whatever was
\* registered in between through the helpers or by the toolbar.
C37_DistinctIds ==
    \A i, j \in 1..Len(flags.subs) :
        ( /\ i # j
          /\ flags.subs[i].cid # None
          /\ flags.subs[j].cid # None )
        => flags.subs[i].cid # flags.subs[j].cid

-----------------------------------------------------------------------------
(* Home, checked under Spec.                                               *)

\* C4: whatever calls and gestures came before, Home leaves every registered
\* plot area with the limits it had when it was registered with the toolbar,
\* and no tool active.
C4_HomeReset ==
    figure.toolbar # None =>
        LET after == _on_home_clicked(Reset(figure))
        IN  /\ Limits(after) = flags.registered
            /\ ActiveTool(after) = "none"

\* Home has acted after set_xlim or set_ylim, a plot and a gesture: the
\* limits are the registered ones, no tool is active, a button is still on
C4_Witness ==
    /\ figure.toolbar # None
    /\ ActiveTool(figure) = "none"
    /\ tb(figure).pan_button \/ tb(figure).zoom_button
    /\ Limits(figure) = flags.registered
    /\ flags.setlims >= 1
    /\ flags.presses >= 1
    /\ figure.axes[1].lines # <<>>

\* C27: the home view of a plot area is the limits it had when it was
\* registered with the toolbar, whatever plot, set_xlim, set_ylim, gestures,
\* toggles and Home have done since.
C27_HomeViewsFixed ==
    figure.toolbar # None =>
        \A a \in AxesIds :
            tb(figure)._home_views[a] = flags.registered[a]

\* a plot, a set_xlim or set_ylim and a gesture have acted, the limits are
\* no more those of the registration, and the home view still is
C27_Witness ==
    /\ figure.toolbar # None
    /\ figure.axes[1].lines # <<>>
    /\ flags.setlims >= 1
    /\ flags.presses >= 1
    /\ gesture = NoGesture
    /\ Limits(figure) # flags.registered
    /\ tb(figure)._home_views[1] = flags.registered[1]

-----------------------------------------------------------------------------
(* Properties of pan gestures, checked under SpecPan.                      *)

Neg(d) == <<-d[1], -d[2]>>

\* C8: a press under Pan followed, with no event in between, by a release
\* at the same pixel leaves the limits of the plot area as they were at the
\* press.
C8_PanNoMotion ==
    ( /\ track.cur.on /\ track.cur.released /\ track.cur.quiet
      /\ track.cur.up = track.cur.p0 )
    => Limits(figure)[track.cur.area] = track.cur.limits0[track.cur.area]

\* such a press and release have happened, on limits that were set
C8_Witness ==
    /\ track.cur.on /\ track.cur.released /\ track.cur.quiet
    /\ track.cur.up = track.cur.p0
    /\ track.cur.limits0[track.cur.area][1] = <<R(0), <<1, 100>> >>

\* two complete pan gestures in sequence on the same plot area
TwoPans ==
    /\ track.prev.on /\ track.prev.released
    /\ track.cur.on /\ track.cur.released
    /\ track.cur.area = track.prev.area

\* C9 as stated: two pan gestures in sequence, the first released at offset
\* (dx, dy) from its press point and the second at (-dx, -dy) from its own,
\* leave the plot area with the limits it had before the first.
C9_PanLinearRelease ==
    ( /\ TwoPans
      /\ Off(track.cur.up, track.cur.p0) = Neg(Off(track.prev.up, track.prev.p0)) )
    => Limits(figure)[track.cur.area] = track.prev.limits0[track.cur.area]

\* C9: two pan gestures in sequence, the last move event of the first at
\* offset (dx, dy) from its press point and the last move event of the
\* second at (-dx, -dy) from its own (a gesture without a move event counts
\* as offset (0, 0)), leave the plot area with the limits it had before the
\* first.
C9_PanLinearMoves ==
    ( /\ TwoPans
      /\ Off(track.cur.end, track.cur.p0) = Neg(Off(track.prev.end, track.prev.p0)) )
    => Limits(figure)[track.cur.area] = track.prev.limits0[track.cur.area]

\* a pan by (4, 2) pixels or back has been undone by the next gesture
C9_Witness ==
    /\ TwoPans
    /\ Off(track.prev.end, track.prev.p0) # <<0, 0>>
    /\ Off(track.cur.end, track.cur.p0) = Neg(Off(track.prev.end, track.prev.p0))
    /\ Limits(figure)[track.cur.area] = track.prev.limits0[track.cur.area]

\* the limits lim = <<xlim, ylim>> moved by the pixel offset d on a plot
\* area of the size of ax: x by d[1] / width * (xhi - xlo), y by the
\* same with the sign flipped
Panned(lim, ax, d) ==
    LET dataDx == RMul(RDiv(R(d[1]), R(ax.width)), RSub(lim[1][2], lim[1][1]))
        dataDy == RNeg(RMul(RDiv(R(d[2]), R(ax.height)), RSub(lim[2][2], lim[2][1])))
    IN  << <<RSub(lim[1][1], dataDx), RSub(lim[1][2], dataDx)>>,
           <<RSub(lim[2][1], dataDy), RSub(lim[2][2], dataDy)>> >>

\* C23: during a pan gesture pressed at p0 on a plot area, each move at a
\* pixel p of that plot area leaves it with the limits of the press moved
\* by the data delta of p - p0, computed with the size and the limits of
\* the press; the moves before it and their number have no effect.
C23_CumulativePan ==
    [][ \A p \in Points :
            ( /\ MouseMove(p)
              /\ InFlight(track)
              /\ Hit(figure, p) = track.cur.area )
            => Limits(figure')[track.cur.area] =
                  Panned(track.cur.limits0[track.cur.area],
                         figure.axes[track.cur.area], Off(p, track.cur.p0)) ]_vars

\* a gesture pressed at (84, 22) on the default limits has last moved to
\* (88, 24): x is moved by -1/2 and y by +1/2
C23_Witness ==
    /\ InFlight(track)
    /\ track.cur.p0 = <<84, 22>> /\ track.cur.end = <<88, 24>>
    /\ track.cur.limits0[track.cur.area] = << <<R(0), R(1)>>, <<R(0), R(1)>> >>
    /\ Limits(figure)[track.cur.area] =
          << << <<-1, 2>>, <<1, 2>> >>, << <<1, 2>>, <<3, 2>> >> >>

\* C24: a release on the plot area of a pan gesture in flight clears the
\* active area and every part of the pan anchor: the press pixel, the
\* limits snapshot and the bounds snapshot.
C24_PanReleaseClears ==
    [][ \A p \in Points :
            ( /\ MouseUp(p)
              /\ InFlight(track)
              /\ Hit(figure, p) = track.cur.area )
            => /\ tb(figure')._active_axes = 0
               /\ tb(figure')._pan_start_canvas = None
               /\ tb(figure')._pan_start_limits = None
               /\ tb(figure')._pan_axes_bounds = None ]_vars

\* the size of a view lim = <<xlim, ylim>>: xhi - xlo and yhi - ylo
Size(lim) == << RSub(lim[1][2], lim[1][1]), RSub(lim[2][2], lim[2][1]) >>

\* C36: during a pan gesture and after it, xlim[1] - xlim[0] and
\* ylim[1] - ylim[0] of the panned plot area are what they were at the press
\* of the gesture.
C36_PanKeepsSize ==
    track.cur.on =>
        Size(Limits(figure)[track.cur.area]) = Size(track.cur.limits0[track.cur.area])

\* a pan gesture on limits that were set has moved them and was released
C36_Witness ==
    /\ track.cur.on /\ track.cur.released
    /\ track.cur.limits0[track.cur.area][1] = <<R(0), <<1, 100>> >>
    /\ Limits(figure)[track.cur.area][1] # track.cur.limits0[track.cur.area][1]
    /\ Limits(figure)[track.cur.area][2] # track.cur.limits0[track.cur.area][2]

-----------------------------------------------------------------------------
(* Gesture targeting, checked under SpecTarget.                            *)

\* the event the mixin of plot area b hands to its callbacks for the canvas
\* point p
EventOf(name, b, p) ==
    MouseEvent(name, p[1], p[2],
               inverse_transform(figure.axes[b], R(p[1]), R(p[2])), FALSE, b)

\* C28: while the toolbar holds plot area P as the area of a gesture, a move
\* or a release resolved to another plot area, or to no plot area, changes
\* no limits and leaves the gesture as it is.
C28_GestureTargeting ==
    figure.toolbar # None /\ tb(figure)._active_axes # 0 =>
        LET P == tb(figure)._active_axes
            fig == Reset(figure)
        IN  /\ \A b \in AxesIds \ {P}, p \in Points :
                  _point_in_axes(figure.axes[b], p[1], p[2]) =>
                     /\ _on_mouse_move(fig, EventOf("motion_notify_event", b, p)) = fig
                     /\ _on_mouse_release(fig, EventOf("button_release_event", b, p)) = fig
            /\ \A p \in Points :
                  Hit(figure, p) = 0 =>
                     LET move == CanvasMouseMove(fig, 1, p[1], p[2])
                         up == CanvasMouseUp(fig, 1, p[1], p[2])
                     IN  /\ Limits(move) = Limits(fig) /\ tb(move) = tb(fig)
                         /\ Limits(up) = Limits(fig) /\ tb(up) = tb(fig)

\* a pan gesture is in flight on the second of two plot areas and has moved
\* its limits; the moves were handed to the first plot area as well, which
\* still has the limits of its registration
C28_Witness ==
    /\ Len(figure.axes) = 2
    /\ ActiveTool(figure) = "pan"
    /\ tb(figure)._active_axes = 2
    /\ tb(figure)._pan_start_canvas # None
    /\ Limits(figure)[2] # flags.registered[2]
    /\ Limits(figure)[1] = flags.registered[1]

====
